---- MODULE Spec2Model ----
(***************************************************************************)
(* Model of pydevd_suspended_frames.py: the registry of suspended frames   *)
(* (SuspendedFramesManager), its per-suspension trackers (_FramesTracker)  *)
(* and the variable nodes (_FrameVariable, _ObjectVariable).               *)
(*                                                                         *)
(* Objects are named by their identity: id(x) of the source is the number  *)
(* that names x here.  Frames are the objects 1..NumFrames.  Python dicts  *)
(* whose iteration order the code depends on are sequences of <<key, val>> *)
(* pairs in insertion order; the other dicts are functions to a value or   *)
(* None.                                                                   *)
(*                                                                         *)
(* track and untrack_all run under the tracker's own lock but write the    *)
(* manager's two dicts, which no lock guards: they are modelled one        *)
(* manager access per step, so that calls on different trackers interleave *)
(* as threads of the debugger interleave them.                             *)
(***************************************************************************)
EXTENDS Naturals, Sequences, FiniteSets, TLC

\* ---- bounds of the model ------------------------------------------------
NumTrackers == 2
NumIds == 2
NumFrames == 2
NumValues == 3
MaxCalls == 2
MaxNodeOps == 3
MaxFakeFrames == 1

None == 0
Trackers == 1..NumTrackers
Ids == 1..NumIds
Frames == 1..NumFrames
Values == (NumFrames + 1)..(NumFrames + NumValues)
Objs == Frames \cup Values

VARIABLES
    thread_id_to_tracker,      \* manager: ordered dict  id -> tracker
    variable_reference_to_frames_tracker, \* manager: frame id -> tracker
    life,                      \* per tracker: position in track_frames
    suspended_frames_manager,  \* per tracker: back-reference still set
    frame_id_to_frame,         \* per tracker: ordered dict (its keys)
    frame_id_to_main_thread_id,
    thread_id_to_frame_ids,    \* per tracker: ordered dict id -> list
    frame_id_to_lineno,
    main_thread_id,
    untracked,
    variable_reference_to_variable,
    node_count,                \* per tracker: variable nodes constructed so far
    pc,                        \* per tracker: position inside track/untrack_all
    frm,                       \* per tracker: locals of the running call
    calls,                     \* per tracker: track/untrack_all calls made by the scope
    untrack_calls,             \* per tracker: untrack_all calls begun so far
    outcome,                   \* per tracker: how its last call ended
    issued,                    \* per tracker: the handles it has registered so far
    node_ops,                  \* obtain_as_variable/get_children_variables calls made
    last_obtain,               \* the last obtain_as_variable call and its result
    expansion,                 \* the last get_children_variables call and its result
    thread_id_to_fake_frames,  \* manager: thread id -> frame id -> fabricated frame
    find,                      \* the manager's find_frame call: its position and result
    query                      \* the manager's get_variable call: its position and result

vars == <<thread_id_to_tracker, variable_reference_to_frames_tracker, life,
          suspended_frames_manager, frame_id_to_frame, frame_id_to_main_thread_id,
          thread_id_to_frame_ids, frame_id_to_lineno, main_thread_id, untracked,
          variable_reference_to_variable, node_count, pc, frm, calls, untrack_calls,
          outcome, issued, node_ops, last_obtain, expansion, thread_id_to_fake_frames,
          find, query>>

\* ---- the heap the debugged program presents ------------------------------
\* frame.f_back: one stack, frame 1 is outermost and frame f > 1 was called by f - 1.
f_back(f) == IF f > 1 THEN f - 1 ELSE None

\* The i-th value object of the heap (the numbering wraps around).
V(i) == NumFrames + ((i - 1) % NumValues) + 1

\* pydevd_constants.RETURN_VALUES_DICT
RETURN_VALUES_DICT == "__pydevd_ret_val_dict"

\* get_type(value)[2]: the resolver of a value, "none" for a value that is no
\* container.  Odd values are containers: list-like ones, whose resolver has
\* get_contents_debug_adapter_protocol ("dap"), and ones resolved through
\* get_dictionary ("dict").
Resolver(v) ==
    LET i == v - NumFrames
    IN  IF v \in Frames \/ i % 2 = 0 THEN "none"
        ELSE IF i % 4 = 1 THEN "dap" ELSE "dict"

\* resolver.get_contents_debug_adapter_protocol(value): (key, value, evaluate
\* name) triples, already sorted; the evaluate name is a suffix of the parent's
\* or a function of it.  A list holds the next value and itself.
get_contents_debug_adapter_protocol(v) ==
    << [key |-> "0", val |-> V(v - NumFrames + 1), ev |-> [kind |-> "suffix", text |-> "[0]"]],
       [key |-> "1", val |-> v, ev |-> [kind |-> "suffix", text |-> "[1]"]],
       [key |-> "__len__", val |-> V(v - NumFrames + 1),
        ev |-> [kind |-> "callable", text |-> "len"]] >>

\* dict_items(resolver.get_dictionary(value)), in the dict's own order
get_dictionary(v) ==
    << [key |-> "b", val |-> V(v - NumFrames + 1)],
       [key |-> "a", val |-> V(v - NumFrames + 2)] >>

\* dict_items(frame.f_locals), in the dict's own order; the outermost frame
\* holds the return values of a call that just ended.
f_locals(f) ==
    << [key |-> "x", val |-> V(f), ret |-> <<>>],
       [key |-> "a", val |-> V(f + 1), ret |-> <<>>] >>
    \o (IF f = 1
        THEN << [key |-> RETURN_VALUES_DICT, val |-> None,
                 ret |-> << [key |-> "foo", val |-> V(2)] >>] >>
        ELSE <<>>)

\* pydevd_resolver.sorted_attributes_key: normal names before the names that
\* start with underscores, each group in alphabetic order.
SortedNames == <<"0", "1", "a", "b", "foo", "x", "__len__", "__pydevd_ret_val_dict">>

sorted_attributes_key(name) == CHOOSE i \in 1..Len(SortedNames) : SortedNames[i] = name

\* list.sort(key=...) on nodes: stable, by the key of the node's name
RECURSIVE InsertSorted(_, _)
InsertSorted(sorted, node) ==
    IF sorted = <<>> THEN <<node>>
    ELSE IF sorted_attributes_key(sorted[Len(sorted)].name) <= sorted_attributes_key(node.name)
         THEN Append(sorted, node)
         ELSE Append(InsertSorted(SubSeq(sorted, 1, Len(sorted) - 1), node), sorted[Len(sorted)])

RECURSIVE SortNodes(_)
SortNodes(seq) ==
    IF seq = <<>> THEN <<>>
    ELSE InsertSorted(SortNodes(SubSeq(seq, 1, Len(seq) - 1)), seq[Len(seq)])

\* The line overrides a caller of track passes: the line at which the suspended
\* frame is reported.  (The dict is modelled by its keys.)
LineMaps(frame) == {{frame}}

\* ---- ordered dicts --------------------------------------------------------
DictKeys(d) == { d[i][1] : i \in 1..Len(d) }

DictHas(d, key) == key \in DictKeys(d)

DictGet(d, key) ==
    IF DictHas(d, key)
    THEN LET i == CHOOSE j \in 1..Len(d) : d[j][1] = key IN d[i][2]
    ELSE None

DictSet(d, key, val) ==
    IF DictHas(d, key)
    THEN [ i \in 1..Len(d) |-> IF d[i][1] = key THEN <<key, val>> ELSE d[i] ]
    ELSE Append(d, <<key, val>>)

DictPop(d, key) == SelectSeq(d, LAMBDA e : e[1] # key)

KeySeq(d) == [ i \in 1..Len(d) |-> d[i][1] ]
\* ---- variable nodes -------------------------------------------------------
\* frame.f_code.co_name
co_name(f) == IF f_back(f) = None THEN "<module>" ELSE "func"

NoNode == [cls |-> "none"]

\* None where a name is expected (no name of the heap is the empty string)
NoName == ""

\* _AbstractVariable.get_variable_reference: id(self.value)
get_variable_reference(node) == node.value

\* _AbstractVariable.get_var_data: the name, the readOnly attribute, the
\* evaluateName and the variablesReference of the rendering (value and type
\* are left out).  A frame node has no _is_return_value: AttributeError.
get_var_data(node) ==
    IF node.cls = "frame" THEN [err |-> "AttributeError"]
    ELSE [err |-> "none",
          name |-> IF node.is_return_value THEN "(return) " \o node.name ELSE node.name,
          readOnly |-> node.is_return_value,
          evaluateName |-> node.evaluate_name,
          variablesReference |-> IF Resolver(node.value) # "none"
                                 THEN get_variable_reference(node) ELSE None]

\* _FrameVariable.__init__ (the registration is done by the caller's table write)
FrameVariable(k, n, frame) ==
    [cls |-> "frame", owner |-> k, nid |-> n, name |-> co_name(frame), value |-> frame,
     evaluate_name |-> NoName, is_return_value |-> FALSE]

\* _ObjectVariable.__init__
ObjectVariable(k, n, name, value, is_return_value, evaluate_name) ==
    [cls |-> "object", owner |-> k, nid |-> n, name |-> name, value |-> value,
     evaluate_name |-> evaluate_name, is_return_value |-> is_return_value]

\* a constructor that does not register the node it makes
RegisterDropped(table, node) == table

\* _FramesTracker._register_variable: table[id(variable.value)] = variable
register_variable(table, node) ==
    [table EXCEPT ![get_variable_reference(node)] = node]

\* ---- state after construction --------------------------------------------
Idle == [thread_id |-> None, id |-> None, top |-> None, frame |-> None, lines |-> {},
         todo |-> <<>>, warned |-> FALSE, exit |-> FALSE]

NoOutcome == [op |-> "none", err |-> "none", noop |-> FALSE, id |-> None, frame |-> None]

NoObtain == [at |-> 0, k |-> None, value |-> None, before |-> NoNode, prev |-> NoNode,
             node |-> NoNode]

NoFind == [pc |-> "none", thread_id |-> None, frame_id |-> "", tracker |-> None,
           result |-> None, raised |-> FALSE]

NoQuery == [pc |-> "none", h |-> None, tracker |-> None, size |-> 0, keys |-> <<>>,
            pos |-> 0, err |-> "none", result |-> NoNode]

NoExpansion == [at |-> 0, node |-> NoNode, children |-> <<>>, made |-> 0, again |-> FALSE,
                before |-> <<>>]

Init ==
    /\ thread_id_to_tracker = <<>>
    /\ variable_reference_to_frames_tracker = [f \in Frames |-> None]
    /\ life = [k \in Trackers |-> "none"]
    /\ suspended_frames_manager = [k \in Trackers |-> TRUE]
    /\ frame_id_to_frame = [k \in Trackers |-> <<>>]
    /\ frame_id_to_main_thread_id = [k \in Trackers |-> [f \in Frames |-> None]]
    /\ thread_id_to_frame_ids = [k \in Trackers |-> <<>>]
    /\ frame_id_to_lineno = [k \in Trackers |-> {}]
    /\ main_thread_id = [k \in Trackers |-> None]
    /\ untracked = [k \in Trackers |-> FALSE]
    /\ variable_reference_to_variable = [k \in Trackers |-> [h \in Objs |-> NoNode]]
    /\ node_count = [k \in Trackers |-> 0]
    /\ pc = [k \in Trackers |-> "idle"]
    /\ frm = [k \in Trackers |-> Idle]
    /\ calls = [k \in Trackers |-> 0]
    /\ untrack_calls = [k \in Trackers |-> 0]
    /\ outcome = [k \in Trackers |-> NoOutcome]
    /\ thread_id_to_fake_frames = [t \in Ids |-> [f \in Frames |-> None]]
    /\ find = NoFind
    /\ query = NoQuery
    /\ issued = [k \in Trackers |-> {}]
    /\ node_ops = 0
    /\ last_obtain = NoObtain
    /\ expansion = NoExpansion

managerVars == <<thread_id_to_tracker, variable_reference_to_frames_tracker>>
tableVars == <<frame_id_to_frame, frame_id_to_main_thread_id, thread_id_to_frame_ids,
               frame_id_to_lineno, main_thread_id, variable_reference_to_variable,
               node_count, issued>>
clientVars == <<node_ops, last_obtain, expansion>>
callVars == <<calls, untrack_calls>>
lookupVars == <<thread_id_to_fake_frames, find, query>>

\* ---- SuspendedFramesManager.track_frames: entering the scope --------------
\* Trackers are numbered in the order in which they are constructed.
TrackFrames(k) ==
    /\ life[k] = "none"
    /\ \A j \in Trackers : j < k => life[j] # "none"
    /\ life' = [life EXCEPT ![k] = "open"]
    /\ UNCHANGED <<managerVars, tableVars, suspended_frames_manager, untracked,
                   pc, frm, callVars, outcome>>
    /\ UNCHANGED <<clientVars, lookupVars>>

\* ---- _FramesTracker.track -------------------------------------------------
\* frame_custom_thread_id or thread_id
coroutine_or_main_thread_id(thread_id, frame_custom_thread_id) ==
    IF frame_custom_thread_id # None THEN frame_custom_thread_id ELSE thread_id

\* the membership test that decides the "added twice" warning
AlreadyTracked(id) == DictHas(thread_id_to_tracker, id)

\* with self._lock ... the test and the warning.  On a tracker whose manager
\* reference was released, the test itself raises AttributeError.
TrackBegin(k, thread_id, frame, lines, custom) ==
    /\ life[k] = "open"
    /\ pc[k] = "idle"
    /\ calls[k] < MaxCalls
    /\ calls' = [calls EXCEPT ![k] = @ + 1]
    /\ UNCHANGED untrack_calls
    /\ IF suspended_frames_manager[k]
       THEN /\ pc' = [pc EXCEPT ![k] = "track_register"]
            /\ frm' = [frm EXCEPT ![k] =
                   [thread_id |-> thread_id,
                    id |-> coroutine_or_main_thread_id(thread_id, custom),
                    top |-> frame, frame |-> frame, lines |-> lines, todo |-> <<>>,
                    warned |-> AlreadyTracked(coroutine_or_main_thread_id(thread_id, custom)),
                    exit |-> FALSE]]
            /\ UNCHANGED outcome
       ELSE /\ outcome' = [outcome EXCEPT ![k] =
                   [NoOutcome EXCEPT !.op = "track", !.err = "AttributeError"]]
            /\ UNCHANGED <<pc, frm>>
    /\ UNCHANGED <<managerVars, tableVars, life, suspended_frames_manager, untracked>>
    /\ UNCHANGED <<clientVars, lookupVars>>

\* the manager's id index is written, then the tracker's own fields
TrackRegister(k) ==
    /\ pc[k] = "track_register"
    /\ thread_id_to_tracker' = DictSet(thread_id_to_tracker, frm[k].id, k)
    /\ main_thread_id' = [main_thread_id EXCEPT ![k] = frm[k].thread_id]
    /\ frame_id_to_lineno' = [frame_id_to_lineno EXCEPT ![k] = frm[k].lines]
    /\ thread_id_to_frame_ids' = [thread_id_to_frame_ids EXCEPT ![k] =
           IF DictHas(@, frm[k].id) THEN @ ELSE Append(@, <<frm[k].id, <<>>>>)]
    /\ pc' = [pc EXCEPT ![k] = "track_walk"]
    /\ UNCHANGED <<variable_reference_to_frames_tracker, life, suspended_frames_manager,
                   frame_id_to_frame, frame_id_to_main_thread_id, untracked,
                   variable_reference_to_variable, node_count, issued, frm, callVars, outcome>>
    /\ UNCHANGED <<clientVars, lookupVars>>

\* one turn of "while frame is not None"
TrackWalk(k) ==
    /\ pc[k] = "track_walk"
    /\ frm[k].frame # None
    /\ LET frame == frm[k].frame
           id == frm[k].id
       IN /\ frame_id_to_frame' = [frame_id_to_frame EXCEPT ![k] = DictSet(@, frame, frame)]
          /\ node_count' = [node_count EXCEPT ![k] = @ + 1]
          /\ variable_reference_to_variable' = [variable_reference_to_variable EXCEPT ![k] =
                 register_variable(@, FrameVariable(k, node_count[k] + 1, frame))]
          /\ variable_reference_to_frames_tracker' =
                 [variable_reference_to_frames_tracker EXCEPT ![frame] = k]
          /\ thread_id_to_frame_ids' = [thread_id_to_frame_ids EXCEPT ![k] =
                 DictSet(@, id, Append(DictGet(@, id), frame))]
          /\ frame_id_to_main_thread_id' = [frame_id_to_main_thread_id EXCEPT ![k][frame] =
                 frm[k].thread_id]
          /\ issued' = [issued EXCEPT ![k] = @ \cup {frame}]
          /\ frm' = [frm EXCEPT ![k].frame = f_back(frame)]
    /\ UNCHANGED <<thread_id_to_tracker, life, suspended_frames_manager, frame_id_to_lineno,
                   main_thread_id, untracked, pc, callVars, outcome>>
    /\ UNCHANGED <<clientVars, lookupVars>>

\* the loop ends, the lock is released
TrackReturn(k) ==
    /\ pc[k] = "track_walk"
    /\ frm[k].frame = None
    /\ pc' = [pc EXCEPT ![k] = "idle"]
    /\ frm' = [frm EXCEPT ![k] = Idle]
    /\ outcome' = [outcome EXCEPT ![k] =
           [NoOutcome EXCEPT !.op = "track", !.id = frm[k].id, !.frame = frm[k].top]]
    /\ UNCHANGED <<managerVars, tableVars, life, suspended_frames_manager, untracked, callVars>>
    /\ UNCHANGED <<clientVars, lookupVars>>

\* ---- _FramesTracker.untrack_all -------------------------------------------
\* untrack_all without its guard: every call tears down again
AlreadyUntrackedNever(k) == FALSE

\* if self._untracked: return
AlreadyUntracked(k) == untracked[k]

\* the position after the two loops' headers: the first loop that has a key to
\* visit, or the clearing of the tables
AfterBegin(k) ==
    IF thread_id_to_frame_ids[k] # <<>> THEN "untrack_pop"
    ELSE IF frame_id_to_frame[k] # <<>> THEN "untrack_del"
    ELSE "untrack_clear"

\* the call ends (it returns or it raises): the lock is released, and a call
\* made by track_frames' finally ends the scope
Finish(k, err, noop) ==
    /\ pc' = [pc EXCEPT ![k] = "idle"]
    /\ frm' = [frm EXCEPT ![k] = Idle]
    /\ outcome' = [outcome EXCEPT ![k] =
           [NoOutcome EXCEPT !.op = "untrack_all", !.err = err, !.noop = noop]]

\* with self._lock: the _untracked test; by_exit says that the caller is the
\* finally clause of track_frames (the scope ends), otherwise the scope's body
UntrackBegin(k, by_exit) ==
    /\ life[k] = "open"
    /\ pc[k] = "idle"
    /\ by_exit \/ calls[k] < MaxCalls
    /\ calls' = [calls EXCEPT ![k] = IF by_exit THEN @ ELSE @ + 1]
    /\ untrack_calls' = [untrack_calls EXCEPT ![k] = @ + 1]
    /\ IF AlreadyUntracked(k)
       THEN /\ outcome' = [outcome EXCEPT ![k] =
                   [NoOutcome EXCEPT !.op = "untrack_all", !.noop = TRUE]]
            /\ life' = [life EXCEPT ![k] = IF by_exit THEN "closed" ELSE @]
            /\ UNCHANGED <<untracked, pc, frm>>
       ELSE /\ untracked' = [untracked EXCEPT ![k] = TRUE]
            /\ pc' = [pc EXCEPT ![k] = AfterBegin(k)]
            /\ frm' = [frm EXCEPT ![k] =
                   [Idle EXCEPT !.exit = by_exit,
                                !.todo = IF thread_id_to_frame_ids[k] # <<>>
                                         THEN KeySeq(thread_id_to_frame_ids[k])
                                         ELSE KeySeq(frame_id_to_frame[k])]]
            /\ life' = [life EXCEPT ![k] = IF by_exit THEN "exiting" ELSE @]
            /\ UNCHANGED outcome
    /\ UNCHANGED <<managerVars, tableVars, suspended_frames_manager>>
    /\ UNCHANGED <<clientVars, lookupVars>>

\* one turn of the first loop: _thread_id_to_tracker.pop(thread_id, None)
UntrackPop(k) ==
    /\ pc[k] = "untrack_pop"
    /\ thread_id_to_tracker' = DictPop(thread_id_to_tracker, Head(frm[k].todo))
    /\ IF Tail(frm[k].todo) # <<>>
       THEN /\ frm' = [frm EXCEPT ![k].todo = Tail(@)]
            /\ UNCHANGED pc
       ELSE /\ frm' = [frm EXCEPT ![k].todo = KeySeq(frame_id_to_frame[k])]
            /\ pc' = [pc EXCEPT ![k] =
                   IF frame_id_to_frame[k] # <<>> THEN "untrack_del" ELSE "untrack_clear"]
    /\ UNCHANGED <<variable_reference_to_frames_tracker, tableVars, life,
                   suspended_frames_manager, untracked, callVars, outcome>>
    /\ UNCHANGED <<clientVars, lookupVars>>

\* del d[frame_id]: KeyError when the key is absent
DelRaises(frame_id) == variable_reference_to_frames_tracker[frame_id] = None

\* one turn of the second loop: del _variable_reference_to_frames_tracker[frame_id];
\* the KeyError of an absent key leaves the call with the tables as they are
UntrackDel(k) ==
    /\ pc[k] = "untrack_del"
    /\ LET frame_id == Head(frm[k].todo)
       IN IF DelRaises(frame_id)
          THEN /\ Finish(k, "KeyError", FALSE)
               /\ life' = [life EXCEPT ![k] = IF frm[k].exit THEN "closed" ELSE @]
               /\ UNCHANGED variable_reference_to_frames_tracker
          ELSE /\ variable_reference_to_frames_tracker' =
                      [variable_reference_to_frames_tracker EXCEPT ![frame_id] = None]
               /\ frm' = [frm EXCEPT ![k].todo = Tail(@)]
               /\ pc' = [pc EXCEPT ![k] =
                      IF Tail(frm[k].todo) # <<>> THEN "untrack_del" ELSE "untrack_clear"]
               /\ UNCHANGED <<life, outcome>>
    /\ UNCHANGED <<thread_id_to_tracker, tableVars, suspended_frames_manager, untracked, callVars>>
    /\ UNCHANGED <<clientVars, lookupVars>>

\* the tables are cleared and the manager reference released; the call returns
UntrackClear(k) ==
    /\ pc[k] = "untrack_clear"
    /\ frame_id_to_frame' = [frame_id_to_frame EXCEPT ![k] = <<>>]
    /\ frame_id_to_main_thread_id' =
           [frame_id_to_main_thread_id EXCEPT ![k] = [f \in Frames |-> None]]
    /\ thread_id_to_frame_ids' = [thread_id_to_frame_ids EXCEPT ![k] = <<>>]
    /\ frame_id_to_lineno' = [frame_id_to_lineno EXCEPT ![k] = {}]
    /\ main_thread_id' = [main_thread_id EXCEPT ![k] = None]
    /\ suspended_frames_manager' = [suspended_frames_manager EXCEPT ![k] = FALSE]
    /\ variable_reference_to_variable' =
           [variable_reference_to_variable EXCEPT ![k] = [h \in Objs |-> NoNode]]
    /\ Finish(k, "none", FALSE)
    /\ life' = [life EXCEPT ![k] = IF frm[k].exit THEN "closed" ELSE @]
    /\ UNCHANGED <<managerVars, node_count, issued, untracked, callVars>>
    /\ UNCHANGED <<clientVars, lookupVars>>

\* ---- obtain_as_variable and get_children_variables --------------------------
\* obtain_as_variable without its lookup: every request makes a node
CachedVariableNever(k, value) == NoNode

\* the table lookup of obtain_as_variable: the node to return, NoNode when a
\* new one has to be made
CachedVariable(k, value) == variable_reference_to_variable[k][value]

\* _FramesTracker.obtain_as_variable (the evaluate name defaults to the name)
ObtainAsVariable(k, name, value, evaluate_name) ==
    /\ life[k] = "open"
    /\ node_ops < MaxNodeOps
    /\ node_ops' = node_ops + 1
    /\ LET cached == CachedVariable(k, value)
           made == ObjectVariable(k, node_count[k] + 1, name, value, FALSE,
                                  IF evaluate_name = NoName THEN name ELSE evaluate_name)
           node == IF cached # NoNode THEN cached ELSE made
       IN /\ IF cached # NoNode
             THEN UNCHANGED <<variable_reference_to_variable, node_count, issued>>
             ELSE /\ variable_reference_to_variable' =
                         [variable_reference_to_variable EXCEPT ![k] = register_variable(@, made)]
                  /\ node_count' = [node_count EXCEPT ![k] = @ + 1]
                  /\ issued' = [issued EXCEPT ![k] = @ \cup {value}]
          /\ last_obtain' = [at |-> node_ops + 1, k |-> k, value |-> value,
                             before |-> variable_reference_to_variable[k][value],
                             prev |-> IF last_obtain.k = k /\ last_obtain.value = value
                                      THEN last_obtain.node ELSE NoNode,
                             node |-> node]
    /\ UNCHANGED <<managerVars, life, suspended_frames_manager, frame_id_to_frame,
                   frame_id_to_main_thread_id, thread_id_to_frame_ids, frame_id_to_lineno,
                   main_thread_id, untracked, pc, frm, callVars, outcome, expansion>>
    /\ UNCHANGED lookupVars

\* the evaluate name of a child: None when the parent has none or the resolver
\* gives none, else the resolver's function of the parent's, or its suffix added
ChildEvaluateName(parent_evaluate_name, ev) ==
    IF parent_evaluate_name = NoName \/ ev.kind = "none" THEN NoName
    ELSE IF ev.kind = "callable" THEN ev.text \o "(" \o parent_evaluate_name \o ")"
    ELSE parent_evaluate_name \o ev.text

\* the (key, value, evaluate name) list of _ObjectVariable.get_children_variables
ChildTriples(v) ==
    CASE Resolver(v) = "dap" -> get_contents_debug_adapter_protocol(v)
      [] Resolver(v) = "dict" ->
            LET items == get_dictionary(v)
                asNodes == [ i \in 1..Len(items) |->
                               [name |-> items[i].key, val |-> items[i].val] ]
                sorted == SortNodes(asNodes)
            IN  [ i \in 1..Len(sorted) |->
                    [key |-> sorted[i].name, val |-> sorted[i].val,
                     ev |-> [kind |-> "none", text |-> NoName]] ]
      [] OTHER -> <<>>

\* _ObjectVariable.get_children_variables: one new node per child, numbered
\* from n + 1 in the order of their construction
ObjectChildren(node, n) ==
    LET lst == ChildTriples(node.value)
    IN  [ i \in 1..Len(lst) |->
            ObjectVariable(node.owner, n + i, lst[i].key, lst[i].val, FALSE,
                           ChildEvaluateName(node.evaluate_name, lst[i].ev)) ]

\* the locals of a frame with the return values unpacked, but made like any
\* other local: the flag is not passed on and the evaluate name is the name
RECURSIVE FlatLocalsUnflagged(_)
FlatLocalsUnflagged(items) ==
    IF items = <<>> THEN <<>>
    ELSE LET it == Head(items)
         IN (IF it.key = RETURN_VALUES_DICT
             THEN [ i \in 1..Len(it.ret) |->
                      [key |-> it.ret[i].key, val |-> it.ret[i].val, is_return_value |-> FALSE,
                       evaluate_name |-> it.ret[i].key] ]
             ELSE << [key |-> it.key, val |-> it.val, is_return_value |-> FALSE,
                      evaluate_name |-> it.key] >>)
            \o FlatLocalsUnflagged(Tail(items))

\* the locals of a frame with the return values unpacked, in f_locals' order
RECURSIVE FlatLocals(_)
FlatLocals(items) ==
    IF items = <<>> THEN <<>>
    ELSE LET it == Head(items)
         IN (IF it.key = RETURN_VALUES_DICT
             THEN [ i \in 1..Len(it.ret) |->
                      [key |-> it.ret[i].key, val |-> it.ret[i].val, is_return_value |-> TRUE,
                       evaluate_name |-> it.key \o "['" \o it.ret[i].key \o "']"] ]
             ELSE << [key |-> it.key, val |-> it.val, is_return_value |-> FALSE,
                      evaluate_name |-> it.key] >>)
            \o FlatLocals(Tail(items))

\* _FrameVariable.get_children_variables before the sort: the nodes in the
\* order of their construction
FrameChildren(node, n) ==
    LET lst == FlatLocals(f_locals(node.value))
    IN  [ i \in 1..Len(lst) |->
            ObjectVariable(node.owner, n + i, lst[i].key, lst[i].val,
                           lst[i].is_return_value, lst[i].evaluate_name) ]

\* the nodes in the order of their construction
MadeChildren(node, n) ==
    IF node.cls = "frame" THEN FrameChildren(node, n) ELSE ObjectChildren(node, n)

\* what get_children_variables returns: frame variables always sorted
ReturnedChildren(node, n) ==
    IF node.cls = "frame" THEN SortNodes(FrameChildren(node, n)) ELSE ObjectChildren(node, n)

\* child nodes that are constructed without registering themselves
RegisterNone(table, made) == table

\* each node registers itself as it is constructed
RECURSIVE RegisterAll(_, _)
RegisterAll(table, made) ==
    IF made = <<>> THEN table
    ELSE RegisterAll(register_variable(table, Head(made)), Tail(made))

\* node.get_children_variables() for a node of tracker k: the children are
\* made, each registers itself through the tracker's _register_variable
Expand(k, node) ==
    /\ node_ops < MaxNodeOps
    /\ node_ops' = node_ops + 1
    /\ LET made == MadeChildren(node, node_count[k])
       IN /\ variable_reference_to_variable' =
                 [variable_reference_to_variable EXCEPT ![k] = RegisterAll(@, made)]
          /\ node_count' = [node_count EXCEPT ![k] = @ + Len(made)]
          /\ issued' = [issued EXCEPT ![k] = @ \cup { made[i].value : i \in 1..Len(made) }]
          /\ expansion' = [at |-> node_ops + 1, node |-> node,
                           children |-> ReturnedChildren(node, node_count[k]),
                           made |-> Len(made),
                           again |-> expansion.node = node,
                           before |-> IF expansion.node = node THEN expansion.children
                                      ELSE <<>>]
    /\ UNCHANGED <<managerVars, life, suspended_frames_manager, frame_id_to_frame,
                   frame_id_to_main_thread_id, thread_id_to_frame_ids, frame_id_to_lineno,
                   main_thread_id, untracked, pc, frm, callVars, outcome, last_obtain>>
    /\ UNCHANGED lookupVars

\* get_children_variables on the node that tracker k's table binds to handle h
GetChildrenVariables(k, h) ==
    /\ life[k] = "open"
    /\ variable_reference_to_variable[k][h] # NoNode
    /\ Expand(k, variable_reference_to_variable[k][h])

\* the nodes of tracker k that the client was given by its last requests
HeldNodes(k) ==
    { n \in {last_obtain.node, expansion.node}
             \cup { expansion.children[i] : i \in 1..Len(expansion.children) } :
        n # NoNode /\ n.owner = k }

\* get_children_variables on a node that the client holds and that the handle
\* table does not bind (any more)
GetChildrenOfHeld(k) ==
    /\ life[k] = "open"
    /\ \E node \in HeldNodes(k) :
          /\ variable_reference_to_variable[k][node.value] # node
          /\ Expand(k, node)

\* ---- the manager's lookups ---------------------------------------------------
\* _FramesTracker.get_variable: the node, NoNode for KeyError
TrackerGetVariable(k, variable_reference) ==
    variable_reference_to_variable[k][variable_reference]

\* the scan of _get_tracker_for_variable_reference, from position i of the
\* id index on: the first tracker whose get_variable does not raise
RECURSIVE ScanTrackers(_, _)
ScanTrackers(i, variable_reference) ==
    IF i > Len(thread_id_to_tracker) THEN None
    ELSE IF TrackerGetVariable(thread_id_to_tracker[i][2], variable_reference) # NoNode
         THEN thread_id_to_tracker[i][2]
         ELSE ScanTrackers(i + 1, variable_reference)

\* SuspendedFramesManager._get_tracker_for_variable_reference
get_tracker_for_variable_reference(variable_reference) ==
    IF variable_reference \in Frames
       /\ variable_reference_to_frames_tracker[variable_reference] # None
    THEN variable_reference_to_frames_tracker[variable_reference]
    ELSE ScanTrackers(1, variable_reference)

\* SuspendedFramesManager.get_thread_id_for_variable_reference
get_thread_id_for_variable_reference(variable_reference) ==
    LET frames_tracker == get_tracker_for_variable_reference(variable_reference)
    IN  IF frames_tracker # None THEN main_thread_id[frames_tracker] ELSE None

\* SuspendedFramesManager.get_variable: the node, NoNode for KeyError
get_variable(variable_reference) ==
    LET frames_tracker == get_tracker_for_variable_reference(variable_reference)
    IN  IF frames_tracker = None THEN NoNode
        ELSE TrackerGetVariable(frames_tracker, variable_reference)

\* _FramesTracker.get_topmost_frame_and_frame_id_to_line: the frame (None when
\* the id is unknown); it takes the lock, so it is read between calls
get_topmost_frame(k, thread_id) ==
    IF DictHas(thread_id_to_frame_ids[k], thread_id)
    THEN Head(DictGet(thread_id_to_frame_ids[k], thread_id))
    ELSE None

\* ---- find_frame ------------------------------------------------------------
\* a fabricated frame, and the frame of the caller that get_frame() returns:
\* objects that are no frame of the suspended stack and no value
FakeFrame == NumFrames + NumValues + 1

get_frame == NumFrames + NumValues + 2

\* the frame ids as the protocol sends them: text
Decimal == <<"1", "2", "3", "4", "5", "6", "7", "8", "9">>

FrameIdTexts == {"*", "x"} \cup { Decimal[f] : f \in Frames }

\* int(frame_id): the number, None for ValueError
int(text) ==
    IF \E i \in 1..Len(Decimal) : Decimal[i] = text
    THEN CHOOSE i \in 1..Len(Decimal) : Decimal[i] = text
    ELSE None

registryVars == <<managerVars, tableVars, life, suspended_frames_manager, untracked, pc, frm,
                  callVars, outcome, clientVars>>

\* SuspendedFramesManager.add_fake_frame
AddFakeFrame(thread_id, frame_id, frame) ==
    /\ int(frame_id) # None
    /\ Cardinality({ e \in Ids \X Frames : thread_id_to_fake_frames[e[1]][e[2]] # None })
           < MaxFakeFrames
    /\ thread_id_to_fake_frames' =
           [thread_id_to_fake_frames EXCEPT ![thread_id][int(frame_id)] = frame]
    /\ UNCHANGED <<registryVars, find, query>>

\* a find_frame that never looks into the fabricated frames
FakeFrameIgnored(thread_id, frame_id) == None

\* fake_frames.get(frame_id) of self._thread_id_to_fake_frames.get(thread_id):
\* None when there is no dict for the thread or no frame under the id
fake_frame(thread_id, frame_id) == thread_id_to_fake_frames[thread_id][frame_id]

\* _FramesTracker.find_frame (under the tracker's lock): the thread id is not read
TrackerFindFrame(k, thread_id, frame_id) ==
    IF DictHas(frame_id_to_frame[k], frame_id) THEN DictGet(frame_id_to_frame[k], frame_id)
    ELSE None

\* SuspendedFramesManager.find_frame up to the call of the tracker's
\* find_frame, which waits for the tracker's lock; an error raised on the way
\* (int() of a text that is no number) is caught and None is returned.  The
\* call changes nothing, so one call per behaviour, made in any state, shows
\* what every call returns.
FindFrameBegin(thread_id, frame_id) ==
    /\ find.pc = "none"
    /\ LET call == [NoFind EXCEPT !.pc = "done",
                                  !.thread_id = thread_id, !.frame_id = frame_id]
           n == int(frame_id)
           frames_tracker == DictGet(thread_id_to_tracker, thread_id)
       IN  find' =
             IF frame_id = "*" THEN [call EXCEPT !.result = get_frame]
             ELSE IF n = None THEN call
             ELSE IF fake_frame(thread_id, n) # None
                  THEN [call EXCEPT !.result = fake_frame(thread_id, n)]
             ELSE IF frames_tracker = None THEN call
             ELSE [call EXCEPT !.pc = "locked", !.tracker = frames_tracker]
    /\ UNCHANGED <<registryVars, thread_id_to_fake_frames, query>>

\* the tracker's find_frame once it has the lock, and the manager's return
FindFrameLocked ==
    /\ find.pc = "locked"
    /\ pc[find.tracker] = "idle"
    /\ find' = [find EXCEPT !.pc = "done",
                            !.result = TrackerFindFrame(find.tracker, find.thread_id,
                                                        int(find.frame_id))]
    /\ UNCHANGED <<registryVars, thread_id_to_fake_frames, query>>

\* ---- SuspendedFramesManager.get_variable, step by step ---------------------------
\* self._variable_reference_to_frames_tracker.get(variable_reference); when it
\* gives no tracker the loop over _thread_id_to_tracker begins: the dict
\* iterator remembers the size of the dict.  (As find_frame, the call changes
\* nothing: one call per behaviour, made in any state.)
GetVariableBegin(variable_reference) ==
    /\ query.pc = "none"
    /\ LET tracker == IF variable_reference \in Frames
                      THEN variable_reference_to_frames_tracker[variable_reference]
                      ELSE None
       IN  query' = IF tracker # None
                    THEN [NoQuery EXCEPT !.pc = "read", !.h = variable_reference,
                                         !.tracker = tracker]
                    ELSE [NoQuery EXCEPT !.pc = "scan", !.h = variable_reference,
                                         !.size = Len(thread_id_to_tracker),
                                         !.keys = KeySeq(thread_id_to_tracker)]
    /\ UNCHANGED <<registryVars, thread_id_to_fake_frames, find>>

\* one turn of "for _thread_id, tracker in dict_iter_items(...)": the iterator
\* raises RuntimeError when the size of the dict has changed since the loop
\* began; when keys were replaced at the same size, the entry it yields next
\* is any entry; the body asks the tracker with get_variable (no lock)
GetVariableScan(yielded) ==
    /\ query.pc = "scan"
    /\ KeySeq(thread_id_to_tracker) = query.keys => yielded = query.pos + 1
    /\ query' =
          IF Len(thread_id_to_tracker) # query.size
          THEN [query EXCEPT !.pc = "done", !.err = "RuntimeError"]
          ELSE IF query.pos >= query.size \/ yielded > Len(thread_id_to_tracker)
          THEN [query EXCEPT !.pc = "done", !.err = "KeyError"]
          ELSE IF TrackerGetVariable(thread_id_to_tracker[yielded][2], query.h) # NoNode
          THEN [query EXCEPT !.pc = "read", !.tracker = thread_id_to_tracker[yielded][2]]
          ELSE [query EXCEPT !.pos = @ + 1]
    /\ UNCHANGED <<registryVars, thread_id_to_fake_frames, find>>

\* frames_tracker.get_variable(variable_reference) of the tracker found (no lock)
GetVariableRead ==
    /\ query.pc = "read"
    /\ LET node == TrackerGetVariable(query.tracker, query.h)
       IN  query' = IF node = NoNode
                    THEN [query EXCEPT !.pc = "done", !.err = "KeyError"]
                    ELSE [query EXCEPT !.pc = "done", !.result = node]
    /\ UNCHANGED <<registryVars, thread_id_to_fake_frames, find>>

\* ---- the specification ------------------------------------------------------
Next ==
    \/ \E k \in Trackers : TrackFrames(k)
    \/ \E k \in Trackers, thread_id \in Ids, frame \in Frames, custom \in Ids \cup {None} :
          \E lines \in LineMaps(frame) : TrackBegin(k, thread_id, frame, lines, custom)
    \/ \E k \in Trackers : TrackRegister(k)
    \/ \E k \in Trackers : TrackWalk(k)
    \/ \E k \in Trackers : TrackReturn(k)
    \/ \E k \in Trackers, by_exit \in BOOLEAN : UntrackBegin(k, by_exit)
    \/ \E k \in Trackers : UntrackPop(k)
    \/ \E k \in Trackers : UntrackDel(k)
    \/ \E k \in Trackers : UntrackClear(k)

Spec == Init /\ [][Next]_vars
\* ---- one session, with a client's requests -----------------------------------
\* track_frames for one suspension
OpenSession(k) ==
    /\ \A j \in Trackers \ {k} : life[j] = "none"
    /\ TrackFrames(k)

\* the one track call of a suspension (pydevd suspends a thread, tracks its
\* stack once and answers the client's requests until the thread resumes)
TrackOnce(k, frame, lines) ==
    /\ calls[k] = 0
    /\ TrackBegin(k, 1, frame, lines, None)

\* the names under which a client asks for a value
ObtainNames == {"x"}

NextNodes ==
    \/ \E k \in Trackers : OpenSession(k)
    \/ \E k \in Trackers, frame \in Frames :
          \E lines \in LineMaps(frame) : TrackOnce(k, frame, lines)
    \/ \E k \in Trackers : TrackRegister(k)
    \/ \E k \in Trackers : TrackWalk(k)
    \/ \E k \in Trackers : TrackReturn(k)
    \/ \E k \in Trackers, by_exit \in BOOLEAN : UntrackBegin(k, by_exit)
    \/ \E k \in Trackers : UntrackPop(k)
    \/ \E k \in Trackers : UntrackDel(k)
    \/ \E k \in Trackers : UntrackClear(k)
    \/ \E k \in Trackers, name \in ObtainNames, value \in Values :
          ObtainAsVariable(k, name, value, NoName)
    \/ \E k \in Trackers, h \in Objs : GetChildrenVariables(k, h)
    \/ \E k \in Trackers : GetChildrenOfHeld(k)

SpecNodes == Init /\ [][NextNodes]_vars

\* ---- one session, with fabricated frames and a find_frame request ---------------
\* the one track call of a suspension, for any thread and sub-execution id
TrackOnceFor(k, thread_id, frame, lines, custom) ==
    /\ calls[k] = 0
    /\ TrackBegin(k, thread_id, frame, lines, custom)

NextFind ==
    \/ \E k \in Trackers : OpenSession(k)
    \/ \E k \in Trackers, thread_id \in Ids, frame \in Frames, custom \in Ids \cup {None} :
          \E lines \in LineMaps(frame) : TrackOnceFor(k, thread_id, frame, lines, custom)
    \/ \E k \in Trackers : TrackRegister(k)
    \/ \E k \in Trackers : TrackWalk(k)
    \/ \E k \in Trackers : TrackReturn(k)
    \/ \E k \in Trackers, by_exit \in BOOLEAN : UntrackBegin(k, by_exit)
    \/ \E k \in Trackers : UntrackPop(k)
    \/ \E k \in Trackers : UntrackDel(k)
    \/ \E k \in Trackers : UntrackClear(k)
    \/ \E thread_id \in Ids, f \in Frames : AddFakeFrame(thread_id, Decimal[f], FakeFrame)
    \/ \E thread_id \in Ids, frame_id \in FrameIdTexts : FindFrameBegin(thread_id, frame_id)
    \/ FindFrameLocked

SpecFind == Init /\ [][NextFind]_vars

\* ---- one session that tracks several ids, with a find_frame request -----------
NextScope ==
    \/ \E k \in Trackers : OpenSession(k)
    \/ \E k \in Trackers, thread_id \in Ids, frame \in Frames, custom \in Ids \cup {None} :
          \E lines \in LineMaps(frame) : TrackBegin(k, thread_id, frame, lines, custom)
    \/ \E k \in Trackers : TrackRegister(k)
    \/ \E k \in Trackers : TrackWalk(k)
    \/ \E k \in Trackers : TrackReturn(k)
    \/ \E k \in Trackers, by_exit \in BOOLEAN : UntrackBegin(k, by_exit)
    \/ \E k \in Trackers : UntrackPop(k)
    \/ \E k \in Trackers : UntrackDel(k)
    \/ \E k \in Trackers : UntrackClear(k)
    \/ \E thread_id \in Ids, frame_id \in FrameIdTexts : FindFrameBegin(thread_id, frame_id)
    \/ FindFrameLocked

SpecScope == Init /\ [][NextScope]_vars

\* ---- sessions of several threads, with a get_variable request -------------------
NextQuery ==
    \/ \E k \in Trackers : TrackFrames(k)
    \/ \E k \in Trackers, thread_id \in Ids, frame \in Frames :
          \E lines \in LineMaps(frame) : TrackOnceFor(k, thread_id, frame, lines, None)
    \/ \E k \in Trackers : TrackRegister(k)
    \/ \E k \in Trackers : TrackWalk(k)
    \/ \E k \in Trackers : TrackReturn(k)
    \/ \E k \in Trackers, by_exit \in BOOLEAN : UntrackBegin(k, by_exit)
    \/ \E k \in Trackers : UntrackPop(k)
    \/ \E k \in Trackers : UntrackDel(k)
    \/ \E k \in Trackers : UntrackClear(k)
    \/ \E variable_reference \in Objs : GetVariableBegin(variable_reference)
    \/ \E yielded \in 1..(NumIds + 1) : GetVariableScan(yielded)
    \/ GetVariableRead

SpecQuery == Init /\ [][NextQuery]_vars

\* ---- properties --------------------------------------------------------------
\* the first untrack_all call on tracker k has ended (it returned or it raised)
UntrackAllDone(k) == untracked[k] /\ pc[k] = "idle"

\* one of the manager's two indices holds an entry that refers to tracker k
RefersTo(k) ==
    \/ \E i \in 1..Len(thread_id_to_tracker) : thread_id_to_tracker[i][2] = k
    \/ \E f \in Frames : variable_reference_to_frames_tracker[f] = k

\* the frame table, the thread -> frame list table, the frame -> thread table
\* and the line table of tracker k are empty
TablesEmpty(k) ==
    /\ frame_id_to_frame[k] = <<>>
    /\ thread_id_to_frame_ids[k] = <<>>
    /\ \A f \in Frames : frame_id_to_main_thread_id[k][f] = None
    /\ frame_id_to_lineno[k] = {}

\* the caller chain of a frame, topmost first
RECURSIVE Chain(_)
Chain(f) == IF f = None THEN <<>> ELSE <<f>> \o Chain(f_back(f))

\* C1 (session isolation): once untrack_all has run on a tracker, every handle
\* the tracker had issued is NotFound for get_variable and has no thread id,
\* also when another session holds the same handle.
C1_SessionIsolation ==
    \A k \in Trackers : \A h \in issued[k] :
        UntrackAllDone(k) =>
            /\ get_variable(h) = NoNode
            /\ get_thread_id_for_variable_reference(h) = None

\* a step of tracker k inside untrack_all: the call begins, or it moves on
UntrackStep(k) ==
    \/ untrack_calls'[k] # untrack_calls[k]
    \/ /\ pc[k] \in {"untrack_pop", "untrack_del", "untrack_clear"}
       /\ pc'[k] # pc[k] \/ frm'[k] # frm[k]

\* C2 (idempotent teardown): no step of a second or later untrack_all call on a
\* tracker changes the manager's two indices or the tracker's tables, and the
\* call ends without an error.
C2_IdempotentTeardown ==
    [][\A k \in Trackers :
          (untrack_calls'[k] >= 2 /\ UntrackStep(k)) =>
              /\ thread_id_to_tracker' = thread_id_to_tracker
              /\ variable_reference_to_frames_tracker' = variable_reference_to_frames_tracker
              /\ frame_id_to_frame'[k] = frame_id_to_frame[k]
              /\ frame_id_to_main_thread_id'[k] = frame_id_to_main_thread_id[k]
              /\ thread_id_to_frame_ids'[k] = thread_id_to_frame_ids[k]
              /\ frame_id_to_lineno'[k] = frame_id_to_lineno[k]
              /\ main_thread_id'[k] = main_thread_id[k]
              /\ variable_reference_to_variable'[k] = variable_reference_to_variable[k]
              /\ suspended_frames_manager'[k] = suspended_frames_manager[k]
              /\ pc'[k] = "idle" => outcome'[k].op = "untrack_all" /\ outcome'[k].err = "none"
      ]_vars

\* a second untrack_all call on a tracker has ended while another tracker holds
\* frames
C2_Witness ==
    \E k \in Trackers :
        /\ untrack_calls[k] >= 2
        /\ pc[k] = "idle"
        /\ outcome[k].op = "untrack_all"
        /\ \E j \in Trackers \ {k} : frame_id_to_frame[j] # <<>>

\* C3 (untrack_all never fails): every untrack_all call ends without an error.
C3_UntrackAllNeverFails ==
    \A k \in Trackers : outcome[k].op = "untrack_all" => outcome[k].err = "none"

\* C4 (teardown postcondition): once untrack_all has been called on a tracker,
\* no index of the manager refers to it and its tables are empty.
C4_TeardownPostcondition ==
    \A k \in Trackers : UntrackAllDone(k) => ~RefersTo(k) /\ TablesEmpty(k)

\* C5 (scoped session): a tracker whose track_frames scope has ended has been
\* untracked and is registered nowhere.
C5_ScopedSession ==
    \A k \in Trackers : life[k] = "closed" => untracked[k] /\ ~RefersTo(k)

\* C6 (routing correctness): a frame handle that an open tracker registered for
\* a sub-execution id different from the real thread id resolves to the real
\* thread id recorded for that frame.
C6_RoutingCorrectness ==
    \A k \in Trackers : \A i \in 1..Len(thread_id_to_frame_ids[k]) :
        LET id == thread_id_to_frame_ids[k][i][1]
            frame_ids == thread_id_to_frame_ids[k][i][2]
        IN  \A j \in 1..Len(frame_ids) :
               LET h == frame_ids[j]
               IN  ( /\ ~untracked[k]
                     /\ pc[k] = "idle"
                     /\ variable_reference_to_frames_tracker[h] = k
                     /\ frame_id_to_main_thread_id[k][h] # id )
                   => get_thread_id_for_variable_reference(h) = frame_id_to_main_thread_id[k][h]

\* C7 (frame order): after track(T, top) has returned on an open tracker, the
\* frame list of the effective id is the caller chain of top, and top is the
\* topmost frame of that id.
C7_FrameOrder ==
    \A k \in Trackers :
        ( /\ outcome[k].op = "track"
          /\ outcome[k].err = "none"
          /\ pc[k] = "idle"
          /\ ~untracked[k] )
        => /\ DictGet(thread_id_to_frame_ids[k], outcome[k].id) = Chain(outcome[k].frame)
           /\ get_topmost_frame(k, outcome[k].id) = outcome[k].frame

\* C8 (DoubleTrack): whenever track writes an effective id that the id index
\* already holds, that call has written the warning.
C8_DoubleTrackWarns ==
    [][\A k \in Trackers :
          ( /\ pc[k] = "track_register"
            /\ pc'[k] = "track_walk"
            /\ DictHas(thread_id_to_tracker, frm[k].id) )
          => frm[k].warned
      ]_vars

\* a node without the number that tells two constructions apart
Strip(node) == [node EXCEPT !.nid = 0]

\* a node that get_children_variables expands: a frame, or a value with a resolver
IsContainer(node) == node.cls = "frame" \/ Resolver(node.value) # "none"

\* C9 as stated (handle stability and node identity): in an open session a
\* request for a value that was requested before returns the node returned
\* before, and no step changes the node that the handle table binds to a handle.
C9_SameNodeAlways ==
    [][\A k \in Trackers :
          /\ ( /\ last_obtain' # last_obtain
               /\ last_obtain'.k = k
               /\ last_obtain'.prev # NoNode
               /\ ~untracked'[k] )
             => last_obtain'.node = last_obtain'.prev
          /\ \A h \in Objs :
                (variable_reference_to_variable[k][h] # NoNode /\ ~untracked'[k])
                => variable_reference_to_variable'[k][h] = variable_reference_to_variable[k][h]
      ]_vars

\* C9 (amended): obtain_as_variable returns the node that the handle table
\* binds to the value's handle at the call, and makes and binds a new node only
\* when there is none; two requests for a value return nodes with the same
\* handle, the later node never older than the earlier.  A binding of the table
\* changes only to a node made in that step for the same value, or is cleared
\* by untrack_all.
C9_HandleStability ==
    [][\A k \in Trackers :
          /\ (last_obtain' # last_obtain /\ last_obtain'.k = k)
             => LET r == last_obtain'
                IN  /\ r.node.owner = k
                    /\ get_variable_reference(r.node) = r.value
                    /\ variable_reference_to_variable'[k][r.value] = r.node
                    /\ r.before # NoNode => r.node = r.before /\ node_count'[k] = node_count[k]
                    /\ r.before = NoNode => r.node.nid = node_count[k] + 1
                                             /\ node_count'[k] = node_count[k] + 1
                    /\ r.prev # NoNode =>
                           /\ get_variable_reference(r.node) = get_variable_reference(r.prev)
                           /\ r.node.nid >= r.prev.nid
          /\ \A h \in Objs :
                LET old == variable_reference_to_variable[k][h]
                    new == variable_reference_to_variable'[k][h]
                IN  (old # NoNode /\ new # old)
                    => \/ new = NoNode /\ pc[k] = "untrack_clear"
                       \/ /\ new # NoNode
                          /\ get_variable_reference(new) = h
                          /\ new.nid > node_count[k]
      ]_vars

\* a value was requested twice in an open session, a frame or container was
\* expanded in between, and the second request returned another node
C9_Witness ==
    /\ last_obtain.prev # NoNode
    /\ last_obtain.node # last_obtain.prev
    /\ ~untracked[last_obtain.k]
    /\ expansion.at > 0
    /\ expansion.at < last_obtain.at

OpenTracked(k) ==
    /\ life[k] = "open"
    /\ ~untracked[k]
    /\ pc[k] = "idle"
    /\ thread_id_to_frame_ids[k] # <<>>

\* the handle table of tracker k contains handle h
Holds(k, h) == variable_reference_to_variable[k][h] # NoNode

\* C11 (routing completeness): between calls, a handle that some open session
\* holds is routed to a tracker whose handle table contains it, and a handle
\* that no open session holds is routed nowhere and get_variable fails.
C11_RoutingCompleteness ==
    (\A k \in Trackers : pc[k] = "idle") =>
        \A h \in Objs :
            LET tracker == get_tracker_for_variable_reference(h)
            IN  IF \E k \in Trackers : OpenTracked(k) /\ Holds(k, h)
                THEN tracker # None /\ Holds(tracker, h) /\ get_variable(h) # NoNode
                ELSE tracker = None /\ get_variable(h) = NoNode

\* C18 (handle uniqueness across open sessions): no handle is in the handle
\* table of two open trackers.
C18_HandleUniqueness ==
    \A h \in Objs : Cardinality({ k \in Trackers : OpenTracked(k) /\ Holds(k, h) }) <= 1

\* C19 (teardown touches only its own session): no step of untrack_all on a
\* tracker removes or changes an entry of the id index or of the handle index
\* that refers to another tracker.
C19_TeardownOwnSession ==
    [][\A k \in Trackers :
          (pc[k] \in {"untrack_pop", "untrack_del", "untrack_clear"} /\ UntrackStep(k)) =>
              /\ \A i \in 1..Len(thread_id_to_tracker) :
                    thread_id_to_tracker[i][2] # k =>
                        DictGet(thread_id_to_tracker', thread_id_to_tracker[i][1])
                            = thread_id_to_tracker[i][2]
              /\ \A f \in Frames :
                    variable_reference_to_frames_tracker[f] \notin {None, k} =>
                        variable_reference_to_frames_tracker'[f]
                            = variable_reference_to_frames_tracker[f]
      ]_vars

\* the children among kids that are rendered under the given name, with the
\* given readOnly attribute and evaluable path, for the given value
Rendered(kids, name, readOnly, path, value) ==
    { j \in 1..Len(kids) :
        /\ get_var_data(kids[j]).name = name
        /\ get_var_data(kids[j]).readOnly = readOnly
        /\ get_var_data(kids[j]).evaluateName = path
        /\ kids[j].value = value }

\* C15 (return-value unpacking): the children of a frame are one node per
\* entry of the return-values binding, rendered '(return) <name>', readOnly,
\* with the path '<binding>[<repr of name>]', none for the binding itself, and
\* one node per other local under its own name, not readOnly, its name as path.
C15_ReturnValueUnpacking ==
    expansion.node.cls = "frame" =>
        LET kids == expansion.children
            locals == f_locals(expansion.node.value)
            plain == { i \in 1..Len(locals) : locals[i].key # RETURN_VALUES_DICT }
            bindings == { i \in 1..Len(locals) : locals[i].key = RETURN_VALUES_DICT }
            OfPlain(i) == Rendered(kids, locals[i].key, FALSE, locals[i].key, locals[i].val)
            OfReturn(i, r) ==
                Rendered(kids, "(return) " \o locals[i].ret[r].key, TRUE,
                         locals[i].key \o "['" \o locals[i].ret[r].key \o "']",
                         locals[i].ret[r].val)
        IN  /\ \A i \in plain : Cardinality(OfPlain(i)) = 1
            /\ \A i \in bindings :
                  /\ \A r \in 1..Len(locals[i].ret) : Cardinality(OfReturn(i, r)) = 1
                  /\ \A j \in 1..Len(kids) : kids[j].name # locals[i].key
            /\ \A j \in 1..Len(kids) :
                  \/ \E i \in plain : j \in OfPlain(i)
                  \/ \E i \in bindings : \E r \in 1..Len(locals[i].ret) : j \in OfReturn(i, r)

\* the frame that holds return values was expanded and a child is a return value
C15_Witness ==
    /\ expansion.node.cls = "frame"
    /\ \E i \in 1..Len(f_locals(expansion.node.value)) :
          f_locals(expansion.node.value)[i].key = RETURN_VALUES_DICT
    /\ \E j \in 1..Len(expansion.children) : expansion.children[j].is_return_value

\* track has returned on tracker k, which is open, and no call runs on it
TrackReturned(k) ==
    /\ outcome[k].op = "track"
    /\ outcome[k].err = "none"
    /\ pc[k] = "idle"
    /\ ~untracked[k]

\* the values of the local bindings of frame f
LocalValues(f) ==
    { FlatLocals(f_locals(f))[i].val : i \in 1..Len(FlatLocals(f_locals(f))) }

\* C16 as stated (eager frame locals): when track has returned, the handle
\* table holds the handle of every frame of the chain and of every local
\* binding of every such frame.
C16_EagerFrameLocals ==
    \A k \in Trackers :
        TrackReturned(k) =>
            \A i \in 1..Len(Chain(outcome[k].frame)) :
                LET f == Chain(outcome[k].frame)[i]
                IN  /\ Holds(k, f)
                    /\ \A v \in LocalValues(f) : Holds(k, v)

\* C16 (amended): when track returns, the handle table binds the handle of
\* every frame of the walked chain to a frame node; track registers no local:
\* the handle of a value enters the table only in a step of a client's
\* obtain_as_variable or get_children_variables call.
C16_LazyFrameLocals ==
    [][\A k \in Trackers :
          /\ (pc[k] = "track_walk" /\ pc'[k] = "idle") =>
                \A i \in 1..Len(Chain(outcome'[k].frame)) :
                    LET f == Chain(outcome'[k].frame)[i]
                        node == variable_reference_to_variable'[k][f]
                    IN  /\ node # NoNode
                        /\ node.cls = "frame"
                        /\ get_variable_reference(node) = f
          /\ \A v \in Values :
                (~Holds(k, v) /\ variable_reference_to_variable'[k][v] # NoNode)
                => node_ops' = node_ops + 1
      ]_vars

\* track has returned and the handle table holds the frames of the chain but
\* none of their locals
C16_Witness ==
    \E k \in Trackers :
        /\ TrackReturned(k)
        /\ \A i \in 1..Len(Chain(outcome[k].frame)) :
              LET f == Chain(outcome[k].frame)[i]
              IN  Holds(k, f) /\ \A v \in LocalValues(f) : ~Holds(k, v)

\* C17 (no node outlives its tracker): once untrack_all has run on a tracker,
\* its handle table is empty, also when the client expands nodes that it got
\* before (stated for the runs in which the client's only requests are
\* get_children_variables calls).
C17_NoNodeOutlivesTracker ==
    \A k \in Trackers :
        (UntrackAllDone(k) /\ last_obtain = NoObtain) => \A h \in Objs : ~Holds(k, h)

\* tracker k holds a frame under frame id n
HoldsFrame(k, n) == \E i \in 1..Len(frame_id_to_frame[k]) : frame_id_to_frame[k][i][1] = n

\* C12 (frame lookup order): find_frame returns the caller's frame for "*",
\* else the fabricated frame under (thread_id, frame_id) when there is one,
\* else the frame that the tracker registered for thread_id holds under
\* frame_id, else nothing; no failure leaves it.
C12_FrameLookupOrder ==
    [][find' # find =>
          /\ ~find'.raised
          /\ IF find.pc = "locked"
             THEN /\ find'.pc = "done"
                  /\ find'.result = IF HoldsFrame(find.tracker, int(find.frame_id))
                                    THEN int(find.frame_id) ELSE None
             ELSE LET thread_id == find'.thread_id
                      text == find'.frame_id
                      n == int(text)
                      fake == thread_id_to_fake_frames[thread_id][n]
                      registered == \E i \in 1..Len(thread_id_to_tracker) :
                                       thread_id_to_tracker[i][1] = thread_id
                  IN  CASE text = "*" -> find'.pc = "done" /\ find'.result = get_frame
                        [] text # "*" /\ n = None -> find'.pc = "done" /\ find'.result = None
                        [] n # None /\ fake # None -> find'.pc = "done" /\ find'.result = fake
                        [] n # None /\ fake = None /\ ~registered ->
                              find'.pc = "done" /\ find'.result = None
                        [] OTHER ->
                              /\ find'.pc = "locked"
                              /\ \E i \in 1..Len(thread_id_to_tracker) :
                                    /\ thread_id_to_tracker[i][1] = thread_id
                                    /\ thread_id_to_tracker[i][2] = find'.tracker
      ]_vars

\* find_frame returned the fabricated frame although the tracker registered
\* for the thread holds a frame under the same id
C12_Witness ==
    /\ find.pc = "done"
    /\ find.result = FakeFrame
    /\ \E i \in 1..Len(thread_id_to_tracker) :
          /\ thread_id_to_tracker[i][1] = find.thread_id
          /\ HoldsFrame(thread_id_to_tracker[i][2], int(find.frame_id))

\* C20 (thread scoping of frame lookup): a frame that find_frame returns from
\* a tracker is in the frame list that the tracker holds for the thread id
\* asked for.
C20_ThreadScopedFindFrame ==
    [][(find.pc = "locked" /\ find'.pc = "done" /\ find'.result # None) =>
          \E i \in 1..Len(thread_id_to_frame_ids[find.tracker]) :
              /\ thread_id_to_frame_ids[find.tracker][i][1] = find.thread_id
              /\ \E j \in 1..Len(thread_id_to_frame_ids[find.tracker][i][2]) :
                    thread_id_to_frame_ids[find.tracker][i][2][j] = find'.result
      ]_vars

\* C13 (lock coverage): an obtain_as_variable call on a tracker, and the
\* registration of a node into its handle table, happen only while no track or
\* untrack_all call of that tracker is inside its critical section.
C13_LockCoverage ==
    [][\A k \in Trackers :
          ( \/ last_obtain' # last_obtain /\ last_obtain'.k = k
            \/ /\ expansion' # expansion
               /\ expansion'.node.owner = k
               /\ expansion'.made > 0 )
          => pc[k] = "idle"
      ]_vars

\* C14 (resume concurrent with a query): a get_variable call that is
\* interleaved with track and untrack_all calls ends with the node registered
\* under the handle in the tracker it was routed to, or with KeyError, and
\* with no other failure.
C14_QueryDuringResume ==
    query.pc = "done" =>
        \/ query.err = "KeyError" /\ query.result = NoNode
        \/ /\ query.err = "none"
           /\ query.result # NoNode
           /\ get_variable_reference(query.result) = query.h
           /\ query.result.owner = query.tracker
====
